---- MODULE Spec2Model ----
(***************************************************************************)
(* Model of src/worker.js: the Worker front door (default.fetch) and the   *)
(* Room Durable Object (seat allocation, presence, dispatch, broadcast).   *)
(*                                                                         *)
(* One action is one handler invocation, run to completion: a Durable      *)
(* Object runs its handlers one at a time and no handler of the source     *)
(* awaits anything.  The runtime is the environment: it chooses which      *)
(* request arrives and on which WebSocket a message, close or error event  *)
(* is delivered.  The handlers' only guard is the metadata they read from  *)
(* the WebSocket, and the source never removes it, so the environment may  *)
(* deliver an event on any WebSocket a room created: MaxLate bounds the    *)
(* events delivered on one that is no longer open (an error followed by a  *)
(* close, say).                                                            *)
(*                                                                         *)
(* out records every ws.send() the last handler called, per WebSocket and  *)
(* in order; fail names the peers whose send() threw, which the try/catch  *)
(* of the broadcasts swallows.                                             *)
(***************************************************************************)
EXTENDS Integers, Sequences, FiniteSets, TLC

\* ---------------------------------------------------------------- bounds
\* WebSocketPairs created over the whole run (each fetch that upgrades makes one).
MaxConn == 6
\* Peers whose send() throws during one handler's broadcasts.
MaxFail == 1
\* Message events delivered over the whole run.
MaxMsg == 2
\* WebSocketPairs created plus message events delivered, over the whole run.
MaxWork == 6
\* Events delivered, over the whole run, on a WebSocket that is no longer open
\* (its close or error was handled already, or the room rejected it).
MaxLate == 1
\* WebSocketPairs created, over the whole run of SpecRooms, in the rooms other
\* than "abc".
MaxOther == 1

\* ------------------------------------------------------ program constants
\* The seat count of _allocSlot and _playersList (i < 4) and of names.
Capacity == 4
\* The cut of data.name.slice(0, 24).
MaxNameLen == 24
\* _allocSlot's result when every seat is taken.
NoSlot == -1

Slots == 0 .. (Capacity - 1)
Conn == 1 .. MaxConn
\* sockets.get(i) for a key the Map does not hold.
NoSocket == 0
\* getWebSocketMetadata(ws) for a WebSocket never given to acceptWebSocket.
NoMeta == -1

\* ------------------------------------------------------------- JS values
Undefined == [ty |-> "undefined", v |-> ""]
Null == [ty |-> "null", v |-> ""]
Str(s) == [ty |-> "string", v |-> s]
Num(s) == [ty |-> "number", v |-> s]

\* name.slice(0, 24)
Slice24(s) == IF Len(s) <= MaxNameLen THEN s ELSE SubSeq(s, 1, MaxNameLen)

\* x ?? null
OrNull(x) == IF x.ty \in {"undefined", "null"} THEN Null ELSE x

\* String.prototype.toLowerCase on the Upgrade header values used here.
ToLowerCase(s) == IF s = "WebSocket" THEN "websocket" ELSE s

\* A name of 25 characters, one more than slice keeps.
Long25 == "abcdefghijklmnopqrstuvwxy"

\* ------------------------------------------------------------ the inputs
\* url.searchParams.get("room"): null when the parameter is absent.
NoParam == "<null>"
RoomParams == {NoParam, "abc", "xyz"}

\* Every request sent to the one room "lobby", whatever its room parameter.
RoomIdAlwaysLobby(p) == "lobby"

\* const roomId = url.searchParams.get("room") || "lobby";
RoomId(p) == IF p = NoParam \/ p = "" THEN "lobby" ELSE p

Rooms == {RoomId(p) : p \in RoomParams}

\* request.headers.get("Upgrade"): null when absent.
NoHeader == "<null>"

\* The requests whose room parameter is one of params.
Requests(params) ==
  {[path |-> "/health", room |-> NoParam, upgrade |-> NoHeader],
   [path |-> "/", room |-> NoParam, upgrade |-> NoHeader]}
  \cup [path : {"/ws"}, room : params, upgrade : {NoHeader, "WebSocket", "h2c"}]

\* The requests of clients that only open WebSockets, for a room of params.
Upgrades(params) == [path : {"/ws"}, room : params, upgrade : {"WebSocket"}]

\* What JSON.parse(message) gives: it throws ("error"), or returns null, a
\* primitive, or an object whose absent fields read as undefined.
Obj(t, name, c, i, st, s) ==
  [parse |-> "object", t |-> t, name |-> name, c |-> c, i |-> i, st |-> st, s |-> s]
NonObj(p) ==
  [parse |-> p, t |-> Undefined, name |-> Undefined, c |-> Undefined,
   i |-> Undefined, st |-> Undefined, s |-> Undefined]

JoinMsgs ==
  {Obj(Str("join"), n, Undefined, Undefined, Undefined, Undefined) :
     n \in {Undefined, Num("7"), Str("Al"), Str(Long25)}}
PingMsgs ==
  {Obj(Str("ping"), Undefined, c, Undefined, Undefined, Undefined) :
     c \in {Undefined, Num("42")}}
InMsgs ==
  {Obj(Str("in"), Undefined, Undefined, p[1], Undefined, p[2]) :
     p \in {<<Str("x"), Num("7")>>, <<Undefined, Str("7")>>}}
SnapMsgs ==
  {Obj(Str("snap"), Undefined, Undefined, Undefined, p[1], p[2]) :
     p \in {<<Str("x"), Num("7")>>, <<Undefined, Str("7")>>}}
OtherMsgs ==
  {Obj(Str("chat"), Str("Al"), Undefined, Undefined, Undefined, Undefined),
   NonObj("primitive")}
Msgs ==
  JoinMsgs \cup PingMsgs \cup InMsgs \cup SnapMsgs \cup OtherMsgs
  \cup {NonObj("error"), NonObj("null")}

\* ----------------------------------------------------------------- state
VARIABLES
  sockets,   \* room -> (slot -> WebSocket): this.sockets, NoSocket for no key
  names,     \* room -> (slot -> name): this.names
  meta,      \* WebSocket -> the slot of the meta given to acceptWebSocket
  roomOf,    \* WebSocket -> the room whose fetch created it ("" before that)
  status,    \* WebSocket -> "none" | "open" | "closed" | "rejected"
  made,      \* the number of WebSocketPairs created so far
  heard,     \* the number of message events delivered so far
  late,      \* the number of events delivered on a WebSocket that is not open
  ev,        \* the handler that ran last, with its arguments and outcome
  out,       \* WebSocket -> the frames the last handler sent to it, in order
  fail       \* the WebSockets whose send() threw during the last handler

vars == <<sockets, names, meta, roomOf, status, made, heard, late, ev, out, fail>>

NoMsg == NonObj("none")
Event(op, ws, room, data, code, threw) ==
  [op |-> op, ws |-> ws, room |-> room, data |-> data, code |-> code, threw |-> threw,
   asked |-> NoParam]
\* The event of a fetch that made a WebSocketPair, with the room parameter of
\* its request.
Asked(e, param) == [e EXCEPT !.asked = param]

Silent == [c \in Conn |-> <<>>]

\* ---------------------------------------------------------------- frames
WelcomeFrame(slot, players) == [t |-> "welcome", slot |-> slot, players |-> players]
JoinFrame(slot, name) == [t |-> "join", slot |-> slot, name |-> name]
LeaveFrame(slot) == [t |-> "leave", slot |-> slot]
PresenceFrame(players) == [t |-> "presence", players |-> players]
ErrFrame(code, msg) == [t |-> "err", code |-> code, msg |-> msg]
\* JSON.stringify drops a field whose value is undefined.
PongFrame(c) == IF c = Undefined THEN [t |-> "pong"] ELSE [t |-> "pong", c |-> c]
InFrame(slot, i, s) ==
  IF s.ty = "number" THEN [t |-> "in", slot |-> slot, i |-> OrNull(i), s |-> s]
  ELSE [t |-> "in", slot |-> slot, i |-> OrNull(i)]
SnapFrame(st, s) ==
  IF s.ty = "number" THEN [t |-> "snap", st |-> OrNull(st), s |-> s]
  ELSE [t |-> "snap", st |-> OrNull(st)]

\* ------------------------------------------------------- Room's helpers
\* socks is one room's Map, nms its names array.
Has(socks, i) == socks[i] # NoSocket

\* _allocSlot scanning from the top seat down.
AllocSlotHighest(socks) ==
  IF \E i \in Slots : ~Has(socks, i)
  THEN CHOOSE i \in Slots : ~Has(socks, i) /\ \A j \in Slots : j > i => Has(socks, j)
  ELSE NoSlot

_allocSlot(socks) ==
  IF \E i \in Slots : ~Has(socks, i)
  THEN CHOOSE i \in Slots : ~Has(socks, i) /\ \A j \in Slots : j < i => Has(socks, j)
  ELSE NoSlot

\* The loop of _playersList from seat i on; names[i] || "" is names[i], names
\* holding strings only.
RECURSIVE PlayersFrom(_, _, _)
PlayersFrom(socks, nms, i) ==
  IF i >= Capacity THEN <<>>
  ELSE IF Has(socks, i)
       THEN <<[slot |-> i, name |-> nms[i]]>> \o PlayersFrom(socks, nms, i + 1)
       ELSE PlayersFrom(socks, nms, i + 1)

\* _playersList with its loop started at seat 1.
PlayersListFromOne(socks, nms) == PlayersFrom(socks, nms, 1)

_playersList(socks, nms) == PlayersFrom(socks, nms, 0)

\* ws.send(frame) on one WebSocket, appended to what the handler sent so far.
Send(o, ws, frame) == [o EXCEPT ![ws] = Append(@, frame)]

_broadcastAll(socks, o, frame) ==
  [c \in Conn |-> IF \E i \in Slots : socks[i] = c THEN Append(o[c], frame) ELSE o[c]]

_broadcastExcept(socks, exceptSlot, o, frame) ==
  [c \in Conn |->
     IF \E i \in Slots : i # exceptSlot /\ socks[i] = c THEN Append(o[c], frame) ELSE o[c]]

\* The peers a handler's broadcasts reach; ws is the handler's own WebSocket.
\* At most k of them have a send() that throws, which the broadcasts' try/catch
\* swallows.
Peers(socks, ws) == {socks[i] : i \in Slots} \ {NoSocket, ws}
FailSets(socks, ws, k) ==
  {F \in SUBSET Peers(socks, ws) : Cardinality(F) <= k}
\* The same for _broadcastExcept, which sends nothing to the excepted seat.
FailSetsExcept(socks, exceptSlot, ws, k) ==
  FailSets([socks EXCEPT ![exceptSlot] = NoSocket], ws, k)

\* ------------------------------------------------------------------ Init
Init ==
  /\ sockets = [r \in Rooms |-> [i \in Slots |-> NoSocket]]
  /\ names = [r \in Rooms |-> [i \in Slots |-> ""]]
  /\ meta = [c \in Conn |-> NoMeta]
  /\ roomOf = [c \in Conn |-> ""]
  /\ status = [c \in Conn |-> "none"]
  /\ made = 0
  /\ heard = 0
  /\ late = 0
  /\ ev = Event("init", 0, "", NoMsg, 0, FALSE)
  /\ out = Silent
  /\ fail = {}

\* Every handler starts from an empty record of what it sent.
Quiet(op, ws, room, data, code, threw) ==
  /\ ev' = Event(op, ws, room, data, code, threw)
  /\ fail' = {}
  /\ out' = Silent
  /\ UNCHANGED <<sockets, names, meta, roomOf, status, made>>

\* ------------------------------------------------------------ Room.fetch
\* An admission that leaves the seat map as it found it.
AdmitSocketsNotSet(socks, slot, server) == socks

\* this.sockets.set(slot, server)
AdmitSockets(socks, slot, server) == [socks EXCEPT ![slot] = server]

\* server.send(welcome); this._broadcastExcept(slot, join), on the Map as set.
AdmitOut(socks, nms, slot, server) ==
  _broadcastExcept(socks, slot,
                   Send(Silent, server, WelcomeFrame(slot, _playersList(socks, nms))),
                   JoinFrame(slot, nms[slot]))

\* server.send(err ROOM_FULL); server.close(1008, "room full")
RejectOut(server) == Send(Silent, server, ErrFrame("ROOM_FULL", "Room full (max 4)."))

fetch(r, req, k) ==
  IF req.upgrade = NoHeader \/ ToLowerCase(req.upgrade) # "websocket"
  THEN Quiet("fetch", 0, r, NoMsg, 426, FALSE)
  ELSE
    /\ made < MaxConn
    /\ made + heard < MaxWork
    /\ LET server == made + 1
           slot == _allocSlot(sockets[r])
       IN /\ made' = server
          /\ roomOf' = [roomOf EXCEPT ![server] = r]
          /\ IF slot = NoSlot
             THEN /\ status' = [status EXCEPT ![server] = "rejected"]
                  /\ fail' = {}
                  /\ out' = RejectOut(server)
                  /\ ev' = Asked(Event("full", server, r, NoMsg, 101, FALSE), req.room)
                  /\ UNCHANGED <<sockets, names, meta>>
             ELSE LET socks == AdmitSockets(sockets[r], slot, server)
                  IN /\ meta' = [meta EXCEPT ![server] = slot]
                     /\ status' = [status EXCEPT ![server] = "open"]
                     /\ sockets' = [sockets EXCEPT ![r] = socks]
                     /\ fail' \in FailSetsExcept(socks, slot, server, k)
                     /\ out' = AdmitOut(socks, names[r], slot, server)
                     /\ ev' = Asked(Event("admit", server, r, NoMsg, 101, FALSE), req.room)
                     /\ UNCHANGED names

\* --------------------------------------------------------- default.fetch
DefaultFetch(req, k) ==
  IF req.path = "/health" THEN Quiet("health", 0, "", NoMsg, 200, FALSE)
  ELSE IF req.path = "/ws" THEN fetch(RoomId(req.room), req, k)
  ELSE Quiet("notfound", 0, "", NoMsg, 404, FALSE)

\* ------------------------------------------------- Room.webSocketMessage
\* this.state.getWebSocketMetadata(ws): the meta of acceptWebSocket stays with
\* the WebSocket; the source never removes it.
\* getWebSocketMetadata read as seat 0 for a WebSocket that has no metadata.
MetadataOrSeatZero(ws) == IF meta[ws] = NoMeta THEN 0 ELSE meta[ws]

getWebSocketMetadata(ws) == meta[ws]

\* const name = typeof data.name === "string" ? data.name.slice(0, 24) : "";
JoinName(data) == IF data.name.ty = "string" THEN Slice24(data.name.v) ELSE ""

\* this.names[slot] = name
JoinNames(nms, slot, name) == [nms EXCEPT ![slot] = name]

\* this._broadcastAll(join); ws.send(presence), on the names as just set.
JoinOut(socks, nms, slot, ws, name) ==
  Send(_broadcastAll(socks, Silent, JoinFrame(slot, name)),
       ws, PresenceFrame(_playersList(socks, nms)))

\* The pong sent with _broadcastAll instead of ws.send.
PingOutToAll(ws, data) == _broadcastAll(sockets[roomOf[ws]], Silent, PongFrame(data.c))

PingOut(ws, data) == Send(Silent, ws, PongFrame(data.c))

InOut(socks, slot, data) == _broadcastExcept(socks, slot, Silent, InFrame(slot, data.i, data.s))

SnapOut(socks, slot, data) == _broadcastExcept(socks, slot, Silent, SnapFrame(data.st, data.s))

\* The BAD_JSON error sent with _broadcastAll instead of ws.send.
BadJsonOutToAll(ws) ==
  _broadcastAll(sockets[roomOf[ws]], Silent, ErrFrame("BAD_JSON", "Invalid JSON"))

BadJsonOut(ws) == Send(Silent, ws, ErrFrame("BAD_JSON", "Invalid JSON"))

webSocketMessage(ws, data, k) ==
  LET slot == getWebSocketMetadata(ws)
      r == roomOf[ws]
  IN
  IF slot = NoMeta THEN Quiet("message", ws, r, data, 0, FALSE)
  ELSE IF data.parse = "error"
  THEN /\ out' = BadJsonOut(ws)
       /\ fail' = {}
       /\ ev' = Event("message", ws, r, data, 0, FALSE)
       /\ UNCHANGED <<sockets, names, meta, roomOf, status, made>>
  ELSE IF data.parse = "null"
  THEN Quiet("message", ws, r, data, 0, TRUE)  \* data.t of null: TypeError
  ELSE IF data.t = Str("join")
  THEN LET name == JoinName(data)
           nms == JoinNames(names[r], slot, name)
       IN /\ names' = [names EXCEPT ![r] = nms]
          /\ fail' \in FailSets(sockets[r], ws, k)
          /\ out' = JoinOut(sockets[r], nms, slot, ws, name)
          /\ ev' = Event("message", ws, r, data, 0, FALSE)
          /\ UNCHANGED <<sockets, meta, roomOf, status, made>>
  ELSE IF data.t = Str("ping")
  THEN /\ out' = PingOut(ws, data)
       /\ fail' = {}
       /\ ev' = Event("message", ws, r, data, 0, FALSE)
       /\ UNCHANGED <<sockets, names, meta, roomOf, status, made>>
  ELSE IF data.t = Str("in")
  THEN /\ fail' \in FailSetsExcept(sockets[r], slot, ws, k)
       /\ out' = InOut(sockets[r], slot, data)
       /\ ev' = Event("message", ws, r, data, 0, FALSE)
       /\ UNCHANGED <<sockets, names, meta, roomOf, status, made>>
  ELSE IF data.t = Str("snap")
  THEN /\ fail' \in FailSetsExcept(sockets[r], slot, ws, k)
       /\ out' = SnapOut(sockets[r], slot, data)
       /\ ev' = Event("message", ws, r, data, 0, FALSE)
       /\ UNCHANGED <<sockets, names, meta, roomOf, status, made>>
  ELSE Quiet("message", ws, r, data, 0, FALSE)

\* --------------------------------------------------- Room.webSocketClose
\* this.sockets.delete(slot)
CloseSockets(socks, slot) == [socks EXCEPT ![slot] = NoSocket]

\* this.names[slot] = ""
CloseNames(nms, slot) == [nms EXCEPT ![slot] = ""]

\* this._broadcastAll(leave); this._broadcastAll(presence), after the delete.
CloseOut(socks, nms, slot) ==
  _broadcastAll(socks, _broadcastAll(socks, Silent, LeaveFrame(slot)),
                PresenceFrame(_playersList(socks, nms)))

webSocketClose(ws, k) ==
  LET slot == getWebSocketMetadata(ws)
      r == roomOf[ws]
  IN
  IF slot = NoMeta THEN Quiet("close", ws, r, NoMsg, 0, FALSE)
  ELSE LET socks == CloseSockets(sockets[r], slot)
           nms == CloseNames(names[r], slot)
       IN /\ sockets' = [sockets EXCEPT ![r] = socks]
          /\ names' = [names EXCEPT ![r] = nms]
          /\ status' = [status EXCEPT ![ws] = "closed"]
          /\ fail' \in FailSets(socks, ws, k)
          /\ out' = CloseOut(socks, nms, slot)
          /\ ev' = Event("close", ws, r, NoMsg, 0, FALSE)
          /\ UNCHANGED <<meta, roomOf, made>>

\* webSocketError(ws) { this.webSocketClose(ws); }
webSocketError(ws, k) == webSocketClose(ws, k)

\* ----------------------------------------------------------- environment
\* The WebSockets some room has created: the runtime can deliver events on them.
Created == {c \in Conn : status[c] # "none"}

\* An event on a WebSocket that is not open counts against MaxLate.
Deliver(ws) ==
  IF status[ws] = "open" THEN late' = late
  ELSE late < MaxLate /\ late' = late + 1

\* params: the room parameters the requests carry; k: how many peers' send()
\* may throw during one handler.
\* reqs: the requests the clients make.
RequestOf(reqs, k) ==
  (\E req \in reqs : DefaultFetch(req, k)) /\ UNCHANGED <<heard, late>>

Request(params, k) == RequestOf(Requests(params), k)

\* msgs: the messages the clients send.
MessageOf(msgs, k) ==
  /\ heard < MaxMsg
  /\ made + heard < MaxWork
  /\ heard' = heard + 1
  /\ \E ws \in Created : Deliver(ws) /\ \E data \in msgs : webSocketMessage(ws, data, k)

Message(k) == MessageOf(Msgs, k)

Close(k) == \E ws \in Created : Deliver(ws) /\ webSocketClose(ws, k) /\ UNCHANGED heard

Error(k) == \E ws \in Created : Deliver(ws) /\ webSocketError(ws, k) /\ UNCHANGED heard

\* One room, every send succeeds.
Next == Request({"abc"}, 0) \/ Message(0) \/ Close(0) \/ Error(0)

Spec == Init /\ [][Next]_vars

\* One room, sends to peers may throw.
\* The messages of the clients of SpecFail: those the room broadcasts.
FailMsgs ==
  {Obj(Str("join"), Str("Al"), Undefined, Undefined, Undefined, Undefined),
   Obj(Str("in"), Undefined, Undefined, Str("x"), Undefined, Num("7")),
   Obj(Str("snap"), Undefined, Undefined, Undefined, Str("x"), Num("7"))}

NextFail ==
  \/ RequestOf(Upgrades({"abc"}), MaxFail)
  \/ MessageOf(FailMsgs, MaxFail)
  \/ Close(MaxFail)
  \/ Error(MaxFail)

SpecFail == Init /\ [][NextFail]_vars

\* The messages of the clients of SpecRooms: one that names a seat and is sent
\* to the whole room, one that is relayed to the others.
RoomMsgs ==
  {Obj(Str("join"), Str("Al"), Undefined, Undefined, Undefined, Undefined),
   Obj(Str("in"), Undefined, Undefined, Str("x"), Undefined, Num("7"))}

\* The requests of SpecRooms: WebSockets opened in any room, but at most
\* MaxOther WebSocketPairs in the rooms other than "abc".
RequestRooms ==
  /\ \E req \in Upgrades(RoomParams) :
       /\ RoomId(req.room) # "abc" =>
            Cardinality({c \in Conn : roomOf[c] \notin {"", "abc"}}) < MaxOther
       /\ DefaultFetch(req, 0)
  /\ UNCHANGED <<heard, late>>

\* Every room the requests can name, every send succeeds.
NextRooms == RequestRooms \/ MessageOf(RoomMsgs, 0) \/ Close(0) \/ Error(0)

SpecRooms == Init /\ [][NextRooms]_vars

\* ---------------------------------------------------------------- claims
\* The sessions of room r that are open: granted a seat by fetch, and no close
\* or error event handled for them yet.
OpenIn(r) == {c \in Conn : status[c] = "open" /\ roomOf[c] = r}

\* The WebSockets room r's Map holds.
Held(r) == {sockets[r][i] : i \in Slots} \ {NoSocket}

\* The seats of a Map that hold no WebSocket.
EmptySeats(socks) == {i \in Slots : socks[i] = NoSocket}

\* C1: a room never has more than 4 open sessions; an admission attempted
\* while 4 sessions are open fails with ROOM_FULL, and a ROOM_FULL admission
\* creates no session.
C1_AtMostFourOpen ==
  /\ \A r \in Rooms : Cardinality(OpenIn(r)) <= 4
  /\ ev.op = "admit" => Cardinality(OpenIn(ev.room) \ {ev.ws}) < 4
  /\ ev.op = "full" =>
       /\ status[ev.ws] # "open"
       /\ ev.ws \notin Held(ev.room)
       /\ meta[ev.ws] = NoMeta
       /\ out[ev.ws] = <<ErrFrame("ROOM_FULL", "Room full (max 4).")>>

\* C2: an admission is granted the lowest-numbered seat of 0..3 that is empty
\* when it is handled, it fails with ROOM_FULL exactly when no seat is empty,
\* and a granted seat index lies in [0, 4).
C2_LowestEmptySeat ==
  [][ev'.op \in {"admit", "full"} =>
       LET empty == EmptySeats(sockets[ev'.room])
           slot == meta'[ev'.ws]
       IN /\ (ev'.op = "full") <=> (empty = {})
          /\ ev'.op = "admit" =>
               /\ slot \in empty
               /\ \A j \in empty : slot <= j
               /\ 0 <= slot /\ slot < 4
               /\ sockets'[ev'.room][slot] = ev'.ws
               /\ \A j \in Slots \ {slot} : sockets'[ev'.room][j] = sockets[ev'.room][j]
          /\ ev'.op = "full" => sockets' = sockets /\ meta' = meta]_vars

\* C2's case: seat 1 is granted again while seats 0 and 2 are held.
C2_Witness ==
  /\ ev.op = "admit"
  /\ meta[ev.ws] = 1
  /\ sockets[ev.room][0] # NoSocket
  /\ sockets[ev.room][2] # NoSocket

\* C3: no two open sessions of a room are bound to the same seat, and the seat
\* an open session was granted is held by that session and by no other.
C3_OneSessionPerSeat ==
  \A r \in Rooms : \A c \in OpenIn(r) :
    /\ \A d \in OpenIn(r) : d # c => meta[d] # meta[c]
    /\ sockets[r][meta[c]] = c

\* C4: a seat that nobody holds has the empty name, so the name a welcome
\* listing and a join notification show for a newly admitted seat is empty.
C4_VacantSeatUnnamed ==
  /\ \A r \in Rooms : \A i \in Slots : sockets[r][i] = NoSocket => names[r][i] = ""
  /\ ev.op = "admit" =>
       /\ names[ev.room][meta[ev.ws]] = ""
       /\ \A c \in Conn : \A n \in 1 .. Len(out[c]) :
            out[c][n].t = "join" => out[c][n].name = ""

\* A players listing of room r: ascending seats, one entry for each WebSocket
\* the room holds, each with the seat's current name.
IsListing(players, r) ==
  /\ \A n \in 1 .. (Len(players) - 1) : players[n].slot < players[n + 1].slot
  /\ {players[n].slot : n \in 1 .. Len(players)} = Slots \ EmptySeats(sockets[r])
  /\ \A n \in 1 .. Len(players) : players[n].name = names[r][players[n].slot]

Heard(t) ==
  /\ ev'.op = "message"
  /\ ev'.data.parse = "object"
  /\ ev'.data.t = Str(t)
  /\ status[ev'.ws] = "open"

\* C6: when the open session in seat k is closed, by a close or an error
\* event, the seat is removed and its name cleared, and every remaining open
\* session of the room is sent leave{slot:k} and then a presence listing
\* without seat k, and nothing else.
C6_LeaveThenPresence ==
  [][(ev'.op = "close" /\ status[ev'.ws] = "open") =>
       LET r == ev'.room
           k == meta[ev'.ws]
       IN /\ sockets'[r][k] = NoSocket
          /\ names'[r][k] = ""
          /\ \A c \in OpenIn(r) \ {ev'.ws} :
               /\ Len(out'[c]) = 2
               /\ out'[c][1] = [t |-> "leave", slot |-> k]
               /\ out'[c][2].t = "presence"
               /\ \A n \in 1 .. Len(out'[c][2].players) : out'[c][2].players[n].slot # k]_vars

\* C7: a close or error event for a session whose close or error was handled
\* already removes no seat, clears no name and sends nothing.
C7_SecondCloseIsNoOp ==
  [][(ev'.op = "close" /\ status[ev'.ws] = "closed") =>
       /\ sockets' = sockets
       /\ names' = names
       /\ out' = Silent]_vars

\* C8: a join from the open session in seat k sets names[k] to the first 24
\* characters of the name ("" when it is missing or no string), sends
\* join{slot:k, name} to every open session of the room, the sender included,
\* then sends the sender a presence listing holding {slot:k, name}; no other
\* name and no seat changes.
C8_JoinSetsNameAndAnnounces ==
  [][Heard("join") =>
       LET r == ev'.room
           ws == ev'.ws
           k == meta[ws]
           n == ev'.data.name
           name == IF n.ty # "string" THEN ""
                   ELSE IF Len(n.v) > 24 THEN SubSeq(n.v, 1, 24) ELSE n.v
           frame == [t |-> "join", slot |-> k, name |-> name]
       IN /\ names'[r][k] = name
          /\ \A j \in Slots \ {k} : names'[r][j] = names[r][j]
          /\ sockets' = sockets
          /\ \A c \in OpenIn(r) \ {ws} : out'[c] = <<frame>>
          /\ Len(out'[ws]) = 2
          /\ out'[ws][1] = frame
          /\ out'[ws][2].t = "presence"
          /\ \E m \in 1 .. Len(out'[ws][2].players) :
               out'[ws][2].players[m] = [slot |-> k, name |-> name]]_vars

\* C9: an in or snap message of an open session is not sent back to it, is
\* sent exactly once to every other open session of the room, and changes no
\* seat and no name.
C9_RelayToOthersOnly ==
  [][(Heard("in") \/ Heard("snap")) =>
       /\ out'[ev'.ws] = <<>>
       /\ \A c \in OpenIn(ev'.room) \ {ev'.ws} :
            Len(out'[c]) = 1 /\ out'[c][1].t = ev'.data.t.v
       /\ sockets' = sockets
       /\ names' = names]_vars

\* C10: a ping{c} of an open session is answered by exactly one pong with the
\* same c, sent to the sender; nobody else is sent anything, and seats and
\* names stay as they were.
C10_PingPong ==
  [][Heard("ping") =>
       /\ out'[ev'.ws] = <<IF ev'.data.c.ty = "undefined" THEN [t |-> "pong"]
                           ELSE [t |-> "pong", c |-> ev'.data.c]>>
       /\ \A c \in Conn \ {ev'.ws} : out'[c] = <<>>
       /\ sockets' = sockets
       /\ names' = names]_vars

\* C10's case: ping{c:42} of an open session whose room holds another session
\* and a name.
C10_Witness ==
  /\ ev.op = "message"
  /\ ev.data.t = Str("ping")
  /\ ev.data.c = Num("42")
  /\ status[ev.ws] = "open"
  /\ out[ev.ws] = <<[t |-> "pong", c |-> Num("42")]>>
  /\ Cardinality(OpenIn(ev.room)) >= 2
  /\ \E i \in Slots : names[ev.room][i] # ""

\* C11: a message that does not parse, sent by an open session, is answered by
\* exactly one err BAD_JSON frame to the sender; nobody else is sent anything,
\* seats and names stay as they were, and the sender is not disconnected: it
\* stays open, keeps the seat it held, and keeps the metadata that lets its
\* next message through the handler's guard.
C11_BadJsonOnlyToSender ==
  [][(ev'.op = "message" /\ ev'.data.parse = "error" /\ status[ev'.ws] = "open") =>
       LET ws == ev'.ws
           r == ev'.room
       IN /\ out'[ws] = <<[t |-> "err", code |-> "BAD_JSON", msg |-> "Invalid JSON"]>>
          /\ \A c \in Conn \ {ws} : out'[c] = <<>>
          /\ sockets' = sockets
          /\ names' = names
          /\ status'[ws] = "open"
          /\ meta'[ws] = meta[ws]
          /\ meta'[ws] \in Slots
          /\ ~ev'.threw]_vars

\* C11's case: the second of two messages of one open session does not parse,
\* the first was a join that named its seat, and the room holds another open
\* session.
C11_Witness ==
  /\ ev.op = "message"
  /\ ev.data.parse = "error"
  /\ status[ev.ws] = "open"
  /\ heard = 2
  /\ names[ev.room][meta[ev.ws]] # ""
  /\ sockets[ev.room][meta[ev.ws]] = ev.ws
  /\ Cardinality(OpenIn(ev.room)) >= 2
  /\ Len(out[ev.ws]) = 1

\* C12: an admission rejected with ROOM_FULL sends the rejected WebSocket one
\* err ROOM_FULL frame and closes it; no session is created, seats and names
\* stay as they were and no session of the room is sent anything.  A message,
\* close or error event delivered later on the rejected WebSocket changes no
\* seat and no name and sends nothing.
C12_RejectionLeavesRoomAlone ==
  [][/\ ev'.op = "full" =>
          /\ out'[ev'.ws] = <<[t |-> "err", code |-> "ROOM_FULL", msg |-> "Room full (max 4)."]>>
          /\ \A c \in Conn \ {ev'.ws} : out'[c] = <<>>
          /\ status'[ev'.ws] = "rejected"
          /\ meta'[ev'.ws] = NoMeta
          /\ \A i \in Slots : sockets'[ev'.room][i] # ev'.ws
          /\ sockets' = sockets
          /\ names' = names
          /\ \A c \in Conn \ {ev'.ws} : status'[c] = status[c]
     /\ (ev'.op \in {"message", "close"} /\ status[ev'.ws] = "rejected") =>
          /\ sockets' = sockets
          /\ names' = names
          /\ status' = status
          /\ \A c \in Conn : out'[c] = <<>>]_vars

\* C12's case: a close or error event handled on a WebSocket that a full room,
\* one of whose seats is named, rejected.
C12_Witness ==
  /\ ev.op = "close"
  /\ status[ev.ws] = "rejected"
  /\ Cardinality(Held(ev.room)) = 4
  /\ \E i \in Slots : names[ev.room][i] # ""

\* C13: an admission granted seat k sends the new session exactly a welcome
\* with slot k and the listing taken after seat k was set, which holds k; it is
\* the first frame the new session is sent.  Every other open session of the
\* room is sent exactly one join{slot:k, name} with the seat's current name,
\* and the new session is sent no join.
C13_WelcomeThenJoinToOthers ==
  ev.op = "admit" =>
    LET ws == ev.ws
        r == ev.room
        k == meta[ws]
    IN /\ Len(out[ws]) = 1
       /\ out[ws][1].t = "welcome"
       /\ out[ws][1].slot = k
       /\ \E n \in 1 .. Len(out[ws][1].players) : out[ws][1].players[n].slot = k
       /\ \A c \in OpenIn(r) \ {ws} :
            out[c] = <<[t |-> "join", slot |-> k, name |-> names[r][k]]>>

\* C14: a message that parses but whose type is none of join, ping, in and
\* snap (an object of another type, or a number, a string or null, which have
\* no type field) is ignored by an open session's handler: nothing is sent,
\* the handler raises no error, seats and names stay as they were and the
\* session stays open.
C14_UnknownTypeIgnored ==
  [][(/\ ev'.op = "message"
      /\ status[ev'.ws] = "open"
      /\ ev'.data.parse \in {"object", "primitive", "null"}
      /\ ev'.data.t \notin {Str("join"), Str("ping"), Str("in"), Str("snap")}) =>
       /\ \A c \in Conn : out'[c] = <<>>
       /\ ~ev'.threw
       /\ sockets' = sockets
       /\ names' = names
       /\ status' = status]_vars

\* C16: every in frame and every snap frame relayed to a peer has a slot
\* field, and it holds the seat index of the sender.
C16_RelayCarriesSlot ==
  (ev.op = "message" /\ ev.data.t \in {Str("in"), Str("snap")}) =>
    \A c \in Conn : \A n \in 1 .. Len(out[c]) :
      out[c][n].t \in {"in", "snap"} =>
        /\ "slot" \in DOMAIN out[c][n]
        /\ out[c][n].slot = meta[ev.ws]

\* C15: rooms are independent.  A request for room x (no parameter: "lobby")
\* is handled by room x alone; a handler of one room changes no seat and no
\* name of another room and sends nothing to a WebSocket of another room; an
\* admission is rejected exactly when its own room has no empty seat, so that
\* an empty room grants seat 0 whatever the other rooms hold.
C15_RoomsIndependent ==
  [][LET r == ev'.room
     IN /\ \A x \in Rooms \ {r} : sockets'[x] = sockets[x] /\ names'[x] = names[x]
        /\ \A c \in Conn : roomOf'[c] # r => out'[c] = <<>>
        /\ \A c \in Conn : roomOf[c] # "" => roomOf'[c] = roomOf[c]
        /\ ev'.op \in {"admit", "full"} =>
             /\ r = (IF ev'.asked = "<null>" THEN "lobby" ELSE ev'.asked)
             /\ roomOf'[ev'.ws] = r
             /\ (ev'.op = "full") <=> (\A i \in Slots : sockets[r][i] # NoSocket)
             /\ (\A i \in Slots : sockets[r][i] = NoSocket) =>
                  (ev'.op = "admit" /\ meta'[ev'.ws] = 0)]_vars

\* C15's case: room "abc" holds four sessions and has rejected a fifth client,
\* and room "xyz" admits its first client at seat 0.
C15_Witness ==
  /\ ev.op = "admit"
  /\ ev.asked = "xyz"
  /\ ev.room = "xyz"
  /\ meta[ev.ws] = 0
  /\ sockets["xyz"][0] = ev.ws
  /\ Cardinality(Held("abc")) = 4
  /\ \E c \in Conn : status[c] = "rejected" /\ roomOf[c] = "abc"

\* C17: admissions to one room do not interfere, in whatever order the room
\* handles them: the seat an admission is granted was empty in the seat map
\* when it was granted, the grant overwrites no seat that was held, the seat
\* map then holds the new WebSocket at that seat and at no other, and of two
\* admissions handled one right after the other the second is granted another
\* seat than the first, whose seat still holds the first.
C17_AdmissionsDoNotCollide ==
  [][ev'.op = "admit" =>
       LET r == ev'.room
           ws == ev'.ws
           k == meta'[ws]
       IN /\ sockets[r][k] = NoSocket
          /\ \A j \in Slots : sockets[r][j] # NoSocket => sockets'[r][j] = sockets[r][j]
          /\ \A j \in Slots : sockets'[r][j] = ws <=> j = k
          /\ (ev.op = "admit" /\ ev.room = r) =>
               /\ k # meta[ev.ws]
               /\ sockets'[r][meta[ev.ws]] = ev.ws]_vars

\* C17's case: four admissions to one room and nothing else delivered to it;
\* the fourth is granted seat 3 and the other three hold seats 0, 1 and 2.
C17_Witness ==
  /\ ev.op = "admit"
  /\ made = 4 /\ heard = 0 /\ late = 0
  /\ \A c \in 1 .. 4 : status[c] = "open" /\ roomOf[c] = ev.room
  /\ ev.ws = 4
  /\ \A c \in 1 .. 4 : sockets[ev.room][c - 1] = c

\* The types of the frames in a sequence of frames.
Types(frames) == [n \in 1 .. Len(frames) |-> frames[n].t]

C19_ClosedSessionCannotAct ==
  [][(/\ ev'.op = "message"
      /\ status[ev'.ws] = "closed"
      /\ ev'.data.t \in {Str("join"), Str("in"), Str("snap"), Str("ping")}) =>
       /\ names' = names
       /\ \A c \in Conn : status[c] = "open" => out'[c] = <<>>]_vars

\* C20: when the close or error of the open session in seat k is handled, seat
\* k becomes empty and the sessions that stay keep their seats; when the room
\* had four open sessions before, seat k is then its only empty seat, and an
\* admission attempted right after is granted exactly seat k, the sessions
\* that stayed keeping theirs.
C20_SeatReleasedAndReused ==
  [][/\ (ev'.op = "close" /\ status[ev'.ws] = "open") =>
          LET r == ev'.room
              ws == ev'.ws
              k == meta[ws]
          IN /\ sockets'[r][k] = NoSocket
             /\ \A c \in OpenIn(r) \ {ws} :
                  meta'[c] = meta[c] /\ sockets'[r][meta[c]] = sockets[r][meta[c]]
             /\ Cardinality(OpenIn(r)) = 4 =>
                  \A i \in Slots : sockets'[r][i] = NoSocket <=> i = k
     /\ (/\ ev.op = "close"
         /\ status[ev.ws] = "closed"
         /\ Cardinality(OpenIn(ev.room)) = 3
         /\ ev'.op \in {"admit", "full"}
         /\ ev'.room = ev.room) =>
          /\ ev'.op = "admit"
          /\ meta'[ev'.ws] = meta[ev.ws]
          /\ sockets'[ev.room][meta[ev.ws]] = ev'.ws
          /\ \A c \in OpenIn(ev.room) :
               meta'[c] = meta[c] /\ sockets'[ev.room][meta[c]] = sockets[ev.room][meta[c]]]_vars

====
